---- MODULE Spec2Model ----
(***************************************************************************)
(* Model of pandas_alive/_base_chart.py: the _BaseChart object, from the   *)
(* moment attrs has assigned its fields, through __attrs_post_init__       *)
(* (column selection, interpolation, figure set-up, validation), to one    *)
(* save() run (frame loop, period annotation, axis limits, encoding,       *)
(* clearing), and on to the next chart constructed on the same figure.     *)
(*                                                                         *)
(* Numbers.  Floating point values are modelled as exact rationals         *)
(* [n |-> numerator, d |-> denominator > 0] in lowest terms.  Timestamps   *)
(* are rationals counted in seconds.  A table cell is <<>> (NaN) or <<r>>  *)
(* (the number r; in an object column r is the code of an opaque string).  *)
(***************************************************************************)
EXTENDS Integers, Sequences, FiniteSets, TLC

VARIABLES
    df,                  \* self.df: the source table, then the interpolated one
    orig_df,             \* self.orig_df: copy of the source table
    interpolate_period,  \* self.interpolate_period
    steps_per_period,    \* self.steps_per_period
    period_fmt,          \* self.period_fmt: "" (falsy) or a format string
    period_label,        \* self.period_label: bool or dict (its key set)
    period_summary_func, \* self.period_summary_func: FALSE (None) or TRUE (a function)
    fixed_max,           \* self.fixed_max
    writer,              \* self.writer: "" (None) or a writer name
    enable_progress_bar, \* self.enable_progress_bar
    cmap,                \* self.cmap: the colour specification
    fig,                 \* self.fig: "None", "Figure" or "other" (not a Figure)
    colors,              \* self.colors: number of resolved colours
    data_cols,           \* self.data_cols
    axes,                \* self.fig.axes: the artists and limits of every axes
    progress_bar,        \* self.progress_bar: "none", "open" or "closed"
    pc,                  \* where the object is in its life
    err,                 \* the exception that ended it, "" when none
    extension,           \* save(): the extension of filename
    i,                   \* save(): the next frame of the loop
    called,              \* the frames anim_func was invoked for, in order
    text_dict,           \* show_period: <<what period_summary_func returned>>
                         \* in the last frame, <<>> when it was not called
    frames,              \* save(): the GIF path's list of images
    encoded,             \* the image sequence handed to the GIF encoder
    encoder,             \* the environment: is an encoder backend installed
    next_id,             \* identity of the next artist created
    history              \* the charts that used this figure before this one:
                         \* how each ended and the value of next_id then

vars == <<df, orig_df, interpolate_period, steps_per_period, period_fmt,
          period_label, period_summary_func, fixed_max, writer,
          enable_progress_bar, cmap, fig, colors, data_cols, axes,
          progress_bar, pc, err, extension, i, called, text_dict, frames,
          encoded, encoder, next_id, history>>

(***************************************************************************)
(* Bounds of the model.                                                    *)
(***************************************************************************)
MaxRows == 3
MaxSteps == 2
MaxCharts == 2

(***************************************************************************)
(* Exact arithmetic.                                                       *)
(***************************************************************************)
Abs(x) == IF x < 0 THEN -x ELSE x

RECURSIVE Gcd(_, _)
Gcd(a, b) == IF b = 0 THEN a ELSE Gcd(b, a % b)

Rat(n, d) ==
    LET s == IF d < 0 THEN -1 ELSE 1
        g == Gcd(Abs(n), Abs(d))
    IN  [n |-> (s * n) \div g, d |-> (s * d) \div g]

Int2Rat(k) == [n |-> k, d |-> 1]
RatAdd(a, b) == Rat(a.n * b.d + b.n * a.d, a.d * b.d)
RatSub(a, b) == Rat(a.n * b.d - b.n * a.d, a.d * b.d)
RatMul(a, b) == Rat(a.n * b.n, a.d * b.d)
RatDiv(a, b) == Rat(a.n * b.d, a.d * b.n)
\* comparisons cross-multiply by the denominators less their common factor
RatLeq(a, b) ==
    a.n * (b.d \div Gcd(a.d, b.d)) <= b.n * (a.d \div Gcd(a.d, b.d))
RatLess(a, b) ==
    a.n * (b.d \div Gcd(a.d, b.d)) < b.n * (a.d \div Gcd(a.d, b.d))
RatMin(S) == CHOOSE x \in S : \A y \in S : RatLeq(x, y)
RatMax(S) == CHOOSE x \in S : \A y \in S : RatLeq(y, x)

Range(s) == {s[k] : k \in DOMAIN s}
(***************************************************************************)
(* Tables.  A table is [kind, index, cols]: kind is the dtype kind of the  *)
(* index ("M" for a DatetimeIndex, "i" for a numeric one), index the       *)
(* sequence of index cells, cols the sequence of columns                   *)
(* [id, dtype, vals].  A column id is <<"str", name>> or <<"int", k>>.     *)
(***************************************************************************)
NRows(t) == Len(t.index)

\* a table of integers
Cells(vs) == [k \in DOMAIN vs |-> <<Int2Rat(vs[k])>>]

Column(id, dtype, vs) == [id |-> id, dtype |-> dtype, vals |-> Cells(vs)]

Table(kind, idx, cols) == [kind |-> kind, index |-> Cells(idx), cols |-> cols]

IsNumber(dtype) == dtype \in {"int64", "float64"}

Str(id) == IF id[1] = "int" THEN <<"str", ToString(id[2])>> ELSE id

HasObjectCol(t) == \E c \in DOMAIN t.cols : ~IsNumber(t.cols[c].dtype)

rename_data_columns(t) ==
    [t EXCEPT !.cols = [c \in DOMAIN t.cols |->
                           [t.cols[c] EXCEPT !.id = Str(t.cols[c].id)]]]

IdsOf(cs) == [c \in DOMAIN cs |-> cs[c].id]

NumberCol(c) == IsNumber(c.dtype)

\* mutant: the identifiers are returned as they are
MapStr_Raw(ids) == ids

MapStr(ids) == [c \in DOMAIN ids |-> Str(ids[c])]

ErrNoNumeric == "Exception: No numeric data columns found for plotting."

get_data_cols(t) ==
    LET kept == IdsOf(SelectSeq(t.cols, NumberCol))
    IN  IF kept = <<>>
        THEN [err |-> ErrNoNumeric, val |-> <<>>]
        ELSE [err |-> "", val |-> MapStr(kept)]

(***************************************************************************)
(* get_interpolated_df and the pandas primitives it calls.                 *)
(***************************************************************************)
SetMax(S) == CHOOSE x \in S : \A y \in S : y <= x
SetMin(S) == CHOOSE x \in S : \A y \in S : x <= y

\* line 366: the row labels 0..R-1 of reset_index, times steps_per_period
ScaledIndex(R, S) == [k \in 1..R |-> (k - 1) * S]

\* mutant: the row count of the data model's wording, steps x rows
NewIndex_AllSteps(R, S) == [j \in 1..(R * S) |-> j - 1]

\* line 367: range(interpolated_df.index[-1] + 1)
NewIndex(R, S) == [j \in 1..(ScaledIndex(R, S)[R] + 1) |-> j - 1]

\* line 368: a row of the new index holds the old row of that label, or NaN
Reindex(vals, S) ==
    LET old == ScaledIndex(Len(vals), S)
        new == NewIndex(Len(vals), S)
    IN  [j \in DOMAIN new |->
            IF \E k \in DOMAIN old : old[k] = new[j]
            THEN vals[CHOOSE k \in DOMAIN old : old[k] = new[j]]
            ELSE <<>>]

PrevValid(cells, j) ==
    LET P == {k \in 1..j : cells[k] # <<>>}
    IN  IF P = {} THEN 0 ELSE SetMax(P)

NextValid(cells, j) ==
    LET P == {k \in j..Len(cells) : cells[k] # <<>>}
    IN  IF P = {} THEN 0 ELSE SetMin(P)

Ffill(cells) ==
    [j \in DOMAIN cells |->
        IF PrevValid(cells, j) = 0 THEN <<>> ELSE cells[PrevValid(cells, j)]]

Weight(j, a, b) == Rat(j - a, b - a)

TimeWeight(index, j, a, b) ==
    RatDiv(RatSub(index[j][1], index[a][1]), RatSub(index[b][1], index[a][1]))

Between(va, vb, w) == RatAdd(va, RatMul(RatSub(vb, va), w))

\* mutant: the gaps are padded with the last value instead of interpolated
InterpolateLinear_Pad(cells) == Ffill(cells)

InterpolateLinear(cells) ==
    [j \in DOMAIN cells |->
        LET a == PrevValid(cells, j)
            b == NextValid(cells, j)
        IN  IF cells[j] # <<>> \/ a = 0 THEN cells[j]
            ELSE IF b = 0 THEN cells[a]
            ELSE <<Between(cells[a][1], cells[b][1], Weight(j, a, b))>>]

InterpolateTime(cells, index) ==
    [j \in DOMAIN cells |->
        LET a == PrevValid(cells, j)
            b == NextValid(cells, j)
        IN  IF cells[j] # <<>> \/ a = 0 THEN cells[j]
            ELSE IF b = 0 THEN cells[a]
            ELSE <<Between(cells[a][1], cells[b][1],
                           TimeWeight(index, j, a, b))>>]

DateRange(first, last, periods) ==
    [j \in 1..periods |->
        IF periods = 1 THEN <<first>>
        ELSE <<Between(first, last, Rat(j - 1, periods - 1))>>]

FillIndex(cells, kind, interp) ==
    IF interp
    THEN IF kind = "M"
         THEN DateRange(cells[1][1], cells[Len(cells)][1], Len(cells))
         ELSE InterpolateLinear(cells)
    ELSE Ffill(cells)

InterpolateCol(col, index, bytime) ==
    IF ~IsNumber(col.dtype) THEN col
    ELSE [col EXCEPT !.vals = IF bytime THEN InterpolateTime(col.vals, index)
                                        ELSE InterpolateLinear(col.vals)]

get_interpolated_df(t, S, interp, self_is_datetime) ==
    LET index == FillIndex(Reindex(t.index, S), t.kind, interp)
        cols == [c \in DOMAIN t.cols |->
                    [t.cols[c] EXCEPT !.vals = Reindex(t.cols[c].vals, S)]]
        bytime == interp /\ self_is_datetime
    IN  [kind |-> t.kind,
         index |-> index,
         cols |-> [c \in DOMAIN cols |-> InterpolateCol(cols[c], index, bytime)]]
(***************************************************************************)
(* The render surface.  An axes is [lines, collections, containers,        *)
(* texts, xlim, ylim]: the first three are sequences of artist ids, texts  *)
(* a sequence of text elements [id, s, by] (by: the call that created it), *)
(* a limit is <<>> before it is set and <<low, high>> after.               *)
(***************************************************************************)
EmptyAxes ==
    [lines |-> <<>>, collections |-> <<>>, containers |-> <<>>,
     texts |-> <<>>, xlim |-> <<>>, ylim |-> <<>>]

(***************************************************************************)
(* set_x_y_limits(df, i, ax), called with df = self.df.  upto = i + 1 is   *)
(* the number of rows of the slice [: i + 1].                              *)
(***************************************************************************)
IndexVals(t, upto) == {t.index[j][1] : j \in 1..upto}

Values(t, upto) ==
    {t.cols[c].vals[j][1] : c \in DOMAIN t.cols, j \in 1..upto}

XPad(kind) == IF kind = "M" THEN Int2Rat(1) ELSE Rat(1, 1000000)

XLimits(t, k, fixed) ==
    LET upto == IF fixed THEN NRows(t) ELSE k + 1
    IN  <<RatMin(IndexVals(t, upto)),
          RatAdd(RatMax(IndexVals(t, upto)), XPad(t.kind))>>

YlimScale(t) ==
    RatMul(RatSub(RatMax(Values(t, NRows(t))), RatMin(Values(t, NRows(t)))),
           Rat(5, 100))

\* mutant: the bottom padding is never suppressed
YlimBotScale_Always(t) == YlimScale(t)

YlimBotScale(t) ==
    IF RatLeq(Int2Rat(0), RatMin(Values(t, NRows(t))))
    THEN Int2Rat(0) ELSE YlimScale(t)

YlimTopScale(t) ==
    IF RatLeq(RatMax(Values(t, NRows(t))), Int2Rat(0))
    THEN Int2Rat(0) ELSE YlimScale(t)

\* mutant: without fixed_max the bounds are those of row i alone
YLimits_RowOnly(t, k, fixed) ==
    LET row == {t.cols[c].vals[k + 1][1] : c \in DOMAIN t.cols}
        vals == IF fixed THEN Values(t, NRows(t)) ELSE row
    IN  <<RatSub(RatMin(vals), YlimBotScale(t)),
          RatAdd(RatMax(vals), YlimTopScale(t))>>

YLimits(t, k, fixed) ==
    LET upto == IF fixed THEN NRows(t) ELSE k + 1
    IN  <<RatSub(RatMin(Values(t, upto)), YlimBotScale(t)),
          RatAdd(RatMax(Values(t, upto)), YlimTopScale(t))>>

set_x_y_limits(ax, t, k, fixed) ==
    IF HasObjectCol(t)
    THEN [err |-> "TypeError",
          ax |-> [ax EXCEPT !.xlim = XLimits(t, k, fixed)]]
    ELSE [err |-> "",
          ax |-> [ax EXCEPT !.xlim = XLimits(t, k, fixed),
                            !.ylim = YLimits(t, k, fixed)]]

(***************************************************************************)
(* get_period_label and show_period.  A period label is                    *)
(* [type, val, keys]: a bool (val) or a dict (its key set).  A string is   *)
(* <<how, n, d>>: how it was made and from which value.                    *)
(***************************************************************************)
Truthy(pl) == IF pl.type = "bool" THEN pl.val ELSE pl.keys # {}

DefaultPeriodLabel == {"size", "x", "y", "ha"}

get_period_label(pl) ==
    IF ~Truthy(pl) THEN [err |-> "", keys |-> {}]
    ELSE IF pl.type = "bool" THEN [err |-> "", keys |-> DefaultPeriodLabel]
    ELSE IF "x" \notin pl.keys \/ "y" \notin pl.keys
         THEN [err |-> "ValueError: period_label dictionary must have keys for x and y",
               keys |-> {}]
         ELSE [err |-> "", keys |-> pl.keys]

PeriodText(t, k, fmt) ==
    LET idx_val == t.index[k + 1][1]
    IN  IF fmt # ""
        THEN IF t.kind = "M" THEN <<"strftime", idx_val.n, idx_val.d>>
                             ELSE <<"format", idx_val.n, idx_val.d>>
        ELSE <<"str", idx_val.n, idx_val.d>>

SummaryText(k) == <<"summary", k, 1>>

SetText(texts, pos, s) == [texts EXCEPT ![pos].s = s]

\* mutant: a text element is created in every frame
ShowPeriodLabel_Recreate(texts, t, k, pl, fmt, id) ==
    IF ~Truthy(pl) \/ get_period_label(pl).err # ""
    THEN [err |-> get_period_label(pl).err, texts |-> texts]
    ELSE [err |-> "",
          texts |-> Append(texts, [id |-> id, by |-> "period",
                                   s |-> PeriodText(t, k, fmt)])]

\* lines 531-549: the period label
ShowPeriodLabel(texts, t, k, pl, fmt, id) ==
    IF ~Truthy(pl) THEN [err |-> "", texts |-> texts]
    ELSE IF Len(texts) = 0
         THEN IF get_period_label(pl).err # ""
              THEN [err |-> get_period_label(pl).err, texts |-> texts]
              ELSE [err |-> "",
                    texts |-> Append(texts, [id |-> id, by |-> "period",
                                             s |-> PeriodText(t, k, fmt)])]
         ELSE [err |-> "", texts |-> SetText(texts, 1, PeriodText(t, k, fmt))]

ErrSummaryKeys ==
    "ValueError: The dictionary returned from period_summary_func.__name__ must contain x, y, and s"

\* mutant: the keys are tested with "and": only a mapping without any of
\* them is refused
ShowPeriodSummary_AnyKey(texts, func, ret, id) ==
    IF ~func THEN [err |-> "", texts |-> texts]
    ELSE IF ret.keys \cap {"x", "y", "s"} = {}
         THEN [err |-> ErrSummaryKeys, texts |-> texts]
         ELSE IF Len(texts) # 2
              THEN [err |-> "",
                    texts |-> Append(texts, [id |-> id, by |-> "summary",
                                             s |-> ret.s])]
              ELSE [err |-> "", texts |-> [texts EXCEPT ![2].s = ret.s]]

\* lines 551-563: the summary; ret is what period_summary_func returned
ShowPeriodSummary(texts, func, ret, id) ==
    IF ~func THEN [err |-> "", texts |-> texts]
    ELSE IF ~({"x", "y", "s"} \subseteq ret.keys)
         THEN [err |-> ErrSummaryKeys, texts |-> texts]
         ELSE IF Len(texts) # 2
              THEN [err |-> "",
                    texts |-> Append(texts, [id |-> id, by |-> "summary",
                                             s |-> ret.s])]
              ELSE [err |-> "", texts |-> SetText(texts, 2, ret.s)]

show_period(texts, t, k, pl, fmt, func, ret, id) ==
    LET first == ShowPeriodLabel(texts, t, k, pl, fmt, id)
        second == ShowPeriodSummary(first.texts, func, ret, id + 1)
    IN  IF first.err # ""
        THEN [err |-> first.err, texts |-> first.texts, text_dict |-> <<>>]
        ELSE [err |-> second.err, texts |-> second.texts,
              text_dict |-> IF func THEN <<ret>> ELSE <<>>]

(***************************************************************************)
(* clearing: every artist of every axes of the figure is removed.          *)
(***************************************************************************)
RemoveAll(ax) ==
    [ax EXCEPT !.lines = <<>>, !.collections = <<>>, !.containers = <<>>,
               !.texts = <<>>]

\* mutant: the texts are left on the axes
clearing_KeepTexts(axs) ==
    [a \in DOMAIN axs |->
        [axs[a] EXCEPT !.lines = <<>>, !.collections = <<>>,
                       !.containers = <<>>]]

\* mutant: only self.ax is cleared
clearing_FirstAxes(axs) ==
    [a \in DOMAIN axs |->
        IF a = 1
        THEN [axs[a] EXCEPT !.lines = <<>>, !.collections = <<>>,
                            !.containers = <<>>, !.texts = <<>>]
        ELSE axs[a]]

clearing(axs) == [a \in DOMAIN axs |-> RemoveAll(axs[a])]
(***************************************************************************)
(* get_colors.  A colour specification is [type, name, N]: type is the     *)
(* Python type ("str", "Colormap", "list", "ndarray", "other"), name the   *)
(* string, N the number of colours of a colour map, list or array.  The    *)
(* resolved list is modelled by its length.                                *)
(***************************************************************************)
Dark24Len == 24

CmapNames == {"viridis", "Pastel1"}
CmapN(name) == IF name = "viridis" THEN 256 ELSE 9
ColorNames == {"blue"}

ErrColorName == "ValueError: Invalid RGBA argument"
ErrCmapType ==
    "TypeError: cmap must be a string name of a color, a matplotlib colormap instance or a list of colors"

get_colors(c, t) ==
    IF c.type = "str"
    THEN IF c.name = "dark24" THEN [err |-> "", n |-> Dark24Len]
         ELSE IF c.name \in CmapNames THEN [err |-> "", n |-> CmapN(c.name)]
         ELSE IF c.name \notin ColorNames
              THEN [err |-> ErrColorName, n |-> 0]
              ELSE IF get_data_cols(t).err # ""
                   THEN [err |-> get_data_cols(t).err, n |-> 0]
                   ELSE [err |-> "", n |-> Len(get_data_cols(t).val)]
    ELSE IF c.type \in {"Colormap", "list", "ndarray"}
         THEN [err |-> "", n |-> c.N]
         ELSE [err |-> ErrCmapType, n |-> 0]

(***************************************************************************)
(* __attrs_post_init__ and validate_params.                                *)
(***************************************************************************)
WritersList == {"pillow", "ffmpeg"}

ErrFigType == "TypeError: fig must be a matplotlib Figure instance"

validate_params(f, w) ==
    IF f # "None" /\ f # "Figure"
    THEN ErrFigType
    ELSE IF w # "" /\ w = "pillow"
         THEN "RuntimeError: Pandas_Alive interfaces with Pillow for you"
         ELSE IF w # "" /\ w \notin WritersList
              THEN "RuntimeError: Ensure that a matplotlib writer library is installed, list of available writer librarys"
              ELSE ""

\* lines 127-133: the figure and its first axes
FigureSetup(f, axs, t) ==
    IF f = "None"
    THEN IF HasObjectCol(t)
         THEN [err |-> "TypeError", fig |-> f, axes |-> axs]
         ELSE [err |-> "", fig |-> "Figure", axes |-> <<EmptyAxes>>]
    ELSE IF f # "Figure"
         THEN [err |-> "AttributeError: get_axes", fig |-> f, axes |-> axs]
         ELSE IF axs = <<>>
              THEN [err |-> "IndexError: list index out of range",
                    fig |-> f, axes |-> axs]
              ELSE [err |-> "", fig |-> f, axes |-> axs]

attrs_post_init(t, c, S, interp, f, axs, w) ==
    LET cols == get_colors(c, t)
        dcols == get_data_cols(t)
        idf == get_interpolated_df(rename_data_columns(t), S, interp,
                                   t.kind = "M")
        setup == FigureSetup(f, axs, idf)
        base == [err |-> "", df |-> t, colors |-> 0, data_cols |-> <<>>,
                 fig |-> f, axes |-> axs]
    IN  IF cols.err # "" THEN [base EXCEPT !.err = cols.err]
        ELSE IF dcols.err # ""
             THEN [base EXCEPT !.err = dcols.err, !.colors = cols.n]
             ELSE IF setup.err # ""
                  THEN [base EXCEPT !.err = setup.err, !.colors = cols.n,
                                    !.data_cols = dcols.val, !.df = idf]
                  ELSE [err |-> validate_params(setup.fig, w), df |-> idf,
                        colors |-> cols.n, data_cols |-> dcols.val,
                        fig |-> setup.fig, axes |-> setup.axes]

PostInit ==
    /\ pc = "new"
    /\ LET r == attrs_post_init(df, cmap, steps_per_period, interpolate_period,
                                fig, axes, writer)
       IN  /\ df' = r.df
           /\ colors' = r.colors
           /\ data_cols' = r.data_cols
           /\ fig' = r.fig
           /\ axes' = r.axes
           /\ err' = r.err
           /\ pc' = IF r.err = "" THEN "idle" ELSE "error"
    /\ orig_df' = df
    /\ UNCHANGED <<interpolate_period, steps_per_period, period_fmt,
                   period_label, period_summary_func, fixed_max, writer,
                   enable_progress_bar, cmap, progress_bar, extension, i,
                   called, text_dict, frames, encoded, encoder, next_id,
                   history>>
(***************************************************************************)
(* save().  The loop over the frames is one Frame step per frame; in the   *)
(* writer and default paths the loop is FuncAnimation's.  anim_func is     *)
(* abstract in _BaseChart: a chart's own, it scales the axes, annotates    *)
(* the period and draws.                                                   *)
(***************************************************************************)
get_frames(t) == [k \in 1..NRows(t) |-> k - 1]

Extensions == {"gif", "mp4"}

SavePath(w, ext) ==
    IF w # "" THEN "writer" ELSE IF ext = "gif" THEN "gif" ELSE "default"

Draw(ax, id) ==
    [ax EXCEPT !.lines = Append(@, id),
               !.collections = Append(@, id + 1),
               !.containers = Append(@, id + 2)]

anim_func(ax, t, k, fixed, pl, fmt, func, ret, id) ==
    LET lim == set_x_y_limits(ax, t, k, fixed)
        sp == show_period(lim.ax.texts, t, k, pl, fmt, func, ret, id)
        annotated == [lim.ax EXCEPT !.texts = sp.texts]
    IN  IF lim.err # ""
        THEN [err |-> lim.err, ax |-> lim.ax, text_dict |-> <<>>]
        ELSE IF sp.err # ""
             THEN [err |-> sp.err, ax |-> annotated, text_dict |-> sp.text_dict]
             ELSE [err |-> "", ax |-> Draw(annotated, id + 2),
                   text_dict |-> sp.text_dict]

ErrNoEncoder ==
    "RuntimeError: Ensure that a matplotlib writer library is installed"

\* mutant: the TypeError leaves save() as it is
Reraised_Uncaught(e) == e

\* lines 630-633: only a TypeError is caught and re-raised
Reraised(e) == IF e = "TypeError" THEN ErrNoEncoder ELSE e

\* the key sets period_summary_func may return, when there is one to call
Returned(func) == IF func THEN SUBSET {"x", "y", "s"} ELSE {{}}

Save ==
    /\ pc = "idle"
    /\ \E ext \in Extensions : extension' = ext
    /\ progress_bar' = IF enable_progress_bar THEN "open" ELSE progress_bar
    /\ i' = 0
    /\ frames' = <<>>
    /\ pc' = "rendering"
    /\ UNCHANGED <<df, orig_df, interpolate_period, steps_per_period,
                   period_fmt, period_label, period_summary_func, fixed_max,
                   writer, enable_progress_bar, cmap, fig, colors, data_cols,
                   axes, err, called, text_dict, encoded, encoder, next_id,
                   history>>

Frame ==
    /\ pc = "rendering"
    /\ i < Len(get_frames(df))
    /\ \E keys \in Returned(period_summary_func) :
          LET r == anim_func(axes[1], df, i, fixed_max, period_label,
                             period_fmt, period_summary_func,
                             [keys |-> keys, s |-> SummaryText(i)], next_id)
          IN  /\ axes' = [axes EXCEPT ![1] = r.ax]
              /\ text_dict' = r.text_dict
              /\ err' = Reraised(r.err)
              /\ pc' = IF r.err = "" THEN "rendering" ELSE "error"
              /\ frames' = IF r.err = "" /\ SavePath(writer, extension) = "gif"
                           THEN Append(frames, i) ELSE frames
    /\ called' = Append(called, i)
    /\ i' = i + 1
    /\ next_id' = next_id + 5
    /\ UNCHANGED <<df, orig_df, interpolate_period, steps_per_period,
                   period_fmt, period_label, period_summary_func, fixed_max,
                   writer, enable_progress_bar, cmap, fig, colors, data_cols,
                   progress_bar, extension, encoded, encoder, history>>

\* frames[0].save(filename, save_all=True, append_images=frames[:], ...)
GifImages(fs) == <<fs[1]>> \o fs

Finish ==
    /\ pc = "rendering"
    /\ i = Len(get_frames(df))
    /\ encoded' = IF SavePath(writer, extension) = "gif"
                  THEN GifImages(frames) ELSE encoded
    /\ progress_bar' = IF enable_progress_bar THEN "closed" ELSE progress_bar
    /\ axes' = clearing(axes)
    /\ pc' = "done"
    /\ UNCHANGED <<df, orig_df, interpolate_period, steps_per_period,
                   period_fmt, period_label, period_summary_func, fixed_max,
                   writer, enable_progress_bar, cmap, fig, colors, data_cols,
                   err, extension, i, called, text_dict, frames, encoder,
                   next_id, history>>

\* the encoder is missing: a TypeError inside the try block
EncodeTypeError ==
    /\ pc = "rendering"
    /\ encoder = "missing"
    /\ err' = Reraised("TypeError")
    /\ pc' = "error"
    /\ UNCHANGED <<df, orig_df, interpolate_period, steps_per_period,
                   period_fmt, period_label, period_summary_func, fixed_max,
                   writer, enable_progress_bar, cmap, fig, colors, data_cols,
                   axes, progress_bar, extension, i, called, text_dict, frames,
                   encoded, encoder, next_id, history>>

\* the caller constructs the next chart on the figure of this one, once
\* save() has returned or has raised its RuntimeError: the fields are the
\* arguments again (a table of two rows, the same options, fig = the figure
\* in use), the figure keeps what is on it
NewChart ==
    /\ pc = "done" \/ (pc = "error" /\ err = Reraised("TypeError"))
    /\ Len(history) + 1 < MaxCharts
    /\ history' = Append(history, [how |-> pc, next_id |-> next_id])
    /\ df' = Table("i", <<0, 1>>, <<Column(<<"str", "a">>, "float64", <<0, 1>>)>>)
    /\ orig_df' = df'
    /\ colors' = 0
    /\ data_cols' = <<>>
    /\ progress_bar' = "none"
    /\ pc' = "new"
    /\ err' = ""
    /\ extension' = ""
    /\ i' = 0
    /\ called' = <<>>
    /\ text_dict' = <<>>
    /\ frames' = <<>>
    /\ encoded' = <<>>
    /\ UNCHANGED <<interpolate_period, steps_per_period, period_fmt,
                   period_label, period_summary_func, fixed_max, writer,
                   enable_progress_bar, cmap, fig, axes, encoder, next_id>>

Next == PostInit \/ Save \/ Frame \/ Finish \/ EncodeTypeError \/ NewChart
(***************************************************************************)
(* The charts the model constructs.  Init is the object as attrs leaves    *)
(* it before __attrs_post_init__: the fields hold the caller's arguments.  *)
(* The arguments are drawn in slices, each varying one group of arguments  *)
(* around a default chart.                                                 *)
(***************************************************************************)
Counting(R) == [k \in 1..R |-> k - 1]

Increasing(R) ==
    {s \in [1..R -> 0..R] : \A k \in 1..(R - 1) : s[k] < s[k + 1]}

DataValues == {-1, 0, 2}
IndexValues == {0, 1, 2}
Kinds == {"i", "M"}

ColA == <<"str", "a">>
ColB == <<"str", "b">>

\* one or two numeric columns of any values, the index counting the rows
DataTables ==
    UNION {{Table(kind, Counting(R), <<Column(ColA, "float64", vs)>>) :
               kind \in Kinds, vs \in [1..R -> DataValues]} : R \in 1..MaxRows}
    \cup
    UNION {{Table("i", Counting(R),
                  <<Column(ColA, "float64", vs),
                    Column(ColB, "float64", [k \in 1..R |-> c])>>) :
               vs \in [1..R -> DataValues], c \in DataValues} :
           R \in 1..MaxRows}

\* any numeric index, any increasing time index, one column counting the rows
IndexTables ==
    UNION {{Table("i", idx, <<Column(ColA, "float64", Counting(R))>>) :
               idx \in [1..R -> IndexValues]} : R \in 1..MaxRows}
    \cup
    UNION {{Table("M", idx, <<Column(ColA, "float64", Counting(R))>>) :
               idx \in Increasing(R)} : R \in 1..MaxRows}

PlainTables ==
    UNION {{Table(kind, Counting(R), <<Column(ColA, "float64", Counting(R))>>) :
               kind \in Kinds} : R \in 1..MaxRows}

\* columns of every dtype pattern, named by strings and integers in turn
MaxCols == 3
Letters == <<"a", "b", "c", "d", "e">>
ColId(k) == IF k % 2 = 0 THEN <<"int", k>> ELSE <<"str", Letters[k]>>
Dtypes == {"float64", "int64", "object"}

ColumnTables ==
    UNION {{Table("i", Counting(2),
                  [k \in 1..C |-> Column(ColId(k), dts[k], Counting(2))]) :
               dts \in [1..C -> Dtypes]} : C \in 1..MaxCols}

TwoRows == Table("i", Counting(2), <<Column(ColA, "float64", Counting(2))>>)

\* the figures a caller may pass: none, a Figure (without axes, with blank
\* axes, with axes that already hold artists) or an object of another type
UsedAxes ==
    [lines |-> <<-1>>, collections |-> <<-2>>, containers |-> <<-3>>,
     texts |-> <<[id |-> 0, by |-> "user", s |-> <<"user", 0, 1>>]>>,
     xlim |-> <<>>, ylim |-> <<>>]

NoFigure == [fig |-> "None", axes |-> <<>>]
BlankFigure == [fig |-> "Figure", axes |-> <<EmptyAxes>>]
UserFigure == [fig |-> "Figure", axes |-> <<UsedAxes>>]
Figures ==
    {NoFigure, BlankFigure, UserFigure,
     [fig |-> "Figure", axes |-> <<>>],
     [fig |-> "Figure", axes |-> <<EmptyAxes, UsedAxes>>],
     [fig |-> "other", axes |-> <<>>]}

Writers == {"", "ffmpeg", "pillow", "avconv"}

Cmaps ==
    {[type |-> "str", name |-> "dark24", N |-> 0],
     [type |-> "str", name |-> "viridis", N |-> 0],
     [type |-> "str", name |-> "blue", N |-> 0],
     [type |-> "str", name |-> "nocolor", N |-> 0],
     [type |-> "list", name |-> "", N |-> 1],
     [type |-> "other", name |-> "", N |-> 0]}

NoLabel == [type |-> "bool", val |-> FALSE, keys |-> {}]
YesLabel == [type |-> "bool", val |-> TRUE, keys |-> {}]
PeriodLabels ==
    {NoLabel, YesLabel,
     [type |-> "dict", val |-> FALSE, keys |-> {}],
     [type |-> "dict", val |-> FALSE, keys |-> {"x", "y", "size"}],
     [type |-> "dict", val |-> FALSE, keys |-> {"x"}]}

Dark24 == [type |-> "str", name |-> "dark24", N |-> 0]

\* the palette, a single colour name, a colour map name, a list of one
\* colour and a colour map object of two colours
ColumnCmaps ==
    {Dark24,
     [type |-> "str", name |-> "blue", N |-> 0],
     [type |-> "str", name |-> "Pastel1", N |-> 0],
     [type |-> "list", name |-> "", N |-> 1],
     [type |-> "Colormap", name |-> "", N |-> 2]}

InitWith(tables, steps, interps, fixeds, labels, fmts, funcs) ==
    /\ df \in tables
    /\ steps_per_period \in steps
    /\ interpolate_period \in interps
    /\ fixed_max \in fixeds
    /\ period_label \in labels
    /\ period_fmt \in fmts
    /\ period_summary_func \in funcs

InitEnv(writers, bars, cmaps, figures, encoders) ==
    /\ writer \in writers
    /\ enable_progress_bar \in bars
    /\ cmap \in cmaps
    /\ \E f \in figures : fig = f.fig /\ axes = f.axes
    /\ encoder \in encoders

DefaultEnv == InitEnv({""}, {FALSE}, {Dark24}, {NoFigure}, {"installed"})

InitData ==
    /\ InitWith(DataTables, 1..MaxSteps, BOOLEAN, BOOLEAN, {NoLabel}, {""},
                {FALSE})
    /\ DefaultEnv

InitIndex ==
    /\ InitWith(IndexTables, 1..MaxSteps, BOOLEAN, BOOLEAN, {NoLabel}, {""},
                {FALSE})
    /\ DefaultEnv

InitPeriod ==
    /\ InitWith(PlainTables, 1..MaxSteps, {FALSE}, {FALSE}, PeriodLabels,
                {"", "{x}"}, BOOLEAN)
    /\ InitEnv({""}, {FALSE}, {Dark24}, {NoFigure, UserFigure}, {"installed"})

InitColumns ==
    /\ InitWith(ColumnTables, {1}, {FALSE}, {FALSE}, {NoLabel}, {""}, {FALSE})
    /\ InitEnv({""}, {FALSE}, ColumnCmaps, {NoFigure, BlankFigure},
               {"installed"})

InitConfig ==
    /\ InitWith({TwoRows}, 1..MaxSteps, {FALSE}, {FALSE}, {YesLabel}, {""},
                {TRUE})
    /\ InitEnv(Writers, BOOLEAN, Cmaps, Figures, {"installed"})

\* no encoder backend is installed
InitEncoder ==
    /\ InitWith({TwoRows}, 1..MaxSteps, {FALSE}, {FALSE}, {YesLabel}, {""},
                {TRUE})
    /\ InitEnv({"", "ffmpeg"}, BOOLEAN, {Dark24}, {NoFigure, UserFigure},
               {"missing"})

Init ==
    /\ \/ InitData
       \/ InitIndex
       \/ InitPeriod
       \/ InitColumns
       \/ InitConfig
       \/ InitEncoder
    /\ orig_df = df
    /\ colors = 0
    /\ data_cols = <<>>
    /\ progress_bar = "none"
    /\ pc = "new"
    /\ err = ""
    /\ extension = ""
    /\ i = 0
    /\ called = <<>>
    /\ text_dict = <<>>
    /\ frames = <<>>
    /\ encoded = <<>>
    /\ next_id = 1
    /\ history = <<>>

Spec == Init /\ [][Next]_vars
(***************************************************************************)
(* Claims.                                                                 *)
(***************************************************************************)
\* the states in which self.df is the table get_interpolated_df returned
Interpolated == pc \in {"idle", "rendering", "done"}

DataLengths(t) == {Len(t.cols[c].vals) : c \in DOMAIN t.cols}

\* C1: the table returned by get_interpolated_df for a table of R >= 1 rows
\* and S >= 1 steps has exactly (R - 1) * S + 1 rows (index and every
\* column); with S = 1 it has R rows.
C1_RowCount ==
    Interpolated =>
        /\ NRows(orig_df) >= 1 /\ steps_per_period >= 1
        /\ NRows(df) = (NRows(orig_df) - 1) * steps_per_period + 1
        /\ DataLengths(df) = {NRows(df)}
        /\ steps_per_period = 1 => NRows(df) = NRows(orig_df)

C1_Witness ==
    /\ Interpolated
    /\ steps_per_period = 2
    /\ NRows(orig_df) = 3
    /\ NRows(df) = 5

\* v_k + (v_{k+1} - v_k) * r / S for the integers v of a source column
C2_Expected(vals, k, r, S) ==
    IF r = 0 THEN vals[k + 1][1]
    ELSE Rat(vals[k + 1][1].n * S + (vals[k + 2][1].n - vals[k + 1][1].n) * r,
             S)

\* C2: with interpolate_period = False and a source table without missing
\* values, row j of the interpolated table (k = j div S, r = j mod S)
\* carries the source index value of row k, and every data value is
\* v_k + (v_{k+1} - v_k) * r / S; the rows k * S carry the source values
\* unchanged.
C2_FfillAndLinear ==
    (Interpolated /\ ~interpolate_period) =>
        \A j \in 0..(NRows(df) - 1) :
            LET k == j \div steps_per_period
                r == j % steps_per_period
            IN  /\ df.index[j + 1] = orig_df.index[k + 1]
                /\ \A c \in DOMAIN df.cols :
                      IsNumber(df.cols[c].dtype) =>
                          df.cols[c].vals[j + 1] =
                              <<C2_Expected(orig_df.cols[c].vals, k, r,
                                            steps_per_period)>>

C2_Witness ==
    /\ Interpolated
    /\ ~interpolate_period
    /\ steps_per_period = 2
    /\ NRows(orig_df) = 3
    /\ df.index[2] = orig_df.index[1]
    /\ df.index[2] # df.index[3]
    /\ df.cols[1].vals[4][1].d = 2
\* self.ax, and the surfaces that held no text element when the chart was
\* constructed: every text on them is this chart's (a text the caller had
\* put there is "by user", one of an earlier chart has an earlier id)
Texts == axes[1].texts
FirstId == IF history = <<>> THEN 1 ELSE history[Len(history)].next_id
OfThisChart(e) == e.by # "user" /\ e.id >= FirstId
TextFreeStart == \A k \in DOMAIN Texts : OfThisChart(Texts[k])
CountBy(texts, who) == Cardinality({k \in DOMAIN texts : texts[k].by = who})
LastFrame == called[Len(called)]

\* C3 (as claimed): from a text-free surface, with any period_label and any
\* period_summary_func returning valid mappings, after any number of
\* show_period calls the axes hold at most two text elements, at most one
\* created for the period label and at most one for the summary.
C3_AtMostOneEach ==
    (pc = "rendering" /\ TextFreeStart) =>
        /\ Len(Texts) <= 2
        /\ CountBy(Texts, "period") <= 1
        /\ CountBy(Texts, "summary") <= 1

\* period_label is True or a dict with "x" and "y"
LabelEnabled ==
    Truthy(period_label) /\ get_period_label(period_label).err = ""

\* C4: with the period label enabled and a text-free surface, the period
\* element is the one the first call created, it is the only one,
\* and after the call for frame k it shows the formatted index value of row
\* k; when a summary function is set and the call returned, the second
\* element is the summary created in the first call (id 2) and shows the
\* "s" returned for row k.  (The first call of a chart creates the artists
\* FirstId and FirstId + 1.)
C4_CreateOnceThenUpdate ==
    (/\ pc \in {"rendering", "error"}
     /\ called # <<>>
     /\ LabelEnabled
     /\ TextFreeStart
     /\ ~HasObjectCol(df)) =>
        /\ Len(Texts) >= 1
        /\ Texts[1] = [id |-> FirstId, by |-> "period",
                       s |-> PeriodText(df, LastFrame, period_fmt)]
        /\ CountBy(Texts, "period") = 1
        /\ (period_summary_func /\ pc = "rendering") =>
              /\ Len(Texts) = 2
              /\ text_dict # <<>>
              /\ text_dict[1].s = SummaryText(LastFrame)
              /\ Texts[2] = [id |-> FirstId + 1, by |-> "summary",
                             s |-> text_dict[1].s]
        /\ ~period_summary_func => Len(Texts) = 1

C4_Witness ==
    /\ pc = "rendering"
    /\ Len(called) = 3
    /\ LabelEnabled
    /\ period_label.type = "dict"
    /\ period_summary_func
    /\ period_fmt # ""
    /\ Len(Texts) = 2
    /\ Texts[1].id = 1
    /\ Texts[1].s = PeriodText(df, 2, period_fmt)
    /\ Texts[1].s # PeriodText(df, 0, period_fmt)
    /\ Texts[2].s = SummaryText(2)
\* the states in which set_x_y_limits has applied both limits for LastFrame
LimitsApplied ==
    /\ called # <<>>
    /\ ~HasObjectCol(df)
    /\ axes[1].ylim # <<>>

\* the rows set_x_y_limits takes the bounds from
Considered == IF fixed_max THEN NRows(df) ELSE LastFrame + 1

Zero == Int2Rat(0)

\* C5: when every value of the interpolated table is >= 0 the lower y bound
\* is the minimum of the data considered (whole table when fixed_max, rows
\* 0..i otherwise), so never below zero; when every value is <= 0 the upper
\* y bound is the maximum of the data considered, never above zero.
C5_NoPaddingPastZero ==
    LimitsApplied =>
        /\ (\A v \in Values(df, NRows(df)) : RatLeq(Zero, v)) =>
              /\ axes[1].ylim[1] = RatMin(Values(df, Considered))
              /\ RatLeq(Zero, axes[1].ylim[1])
        /\ (\A v \in Values(df, NRows(df)) : RatLeq(v, Zero)) =>
              /\ axes[1].ylim[2] = RatMax(Values(df, Considered))
              /\ RatLeq(axes[1].ylim[2], Zero)

C5_Witness ==
    /\ LimitsApplied
    /\ pc = "rendering"
    /\ ~fixed_max
    /\ LastFrame = 1
    /\ \A v \in Values(df, NRows(df)) : RatLeq(Zero, v)
    /\ RatLess(Zero, RatMax(Values(df, NRows(df))))
    /\ axes[1].ylim[1] = Zero
    /\ RatLess(RatMax(Values(df, Considered)), axes[1].ylim[2])

\* C6 (as claimed): for every interpolated table, every frame and both
\* fixed_max settings the applied bounds are non-degenerate on both axes:
\* x low < x high and y low < y high.
C6_NonDegenerate ==
    LimitsApplied =>
        /\ RatLess(axes[1].xlim[1], axes[1].xlim[2])
        /\ RatLess(axes[1].ylim[1], axes[1].ylim[2])

\* C7: when save() has returned normally, through any of its three paths,
\* no axes of the figure holds a line, a collection, a container or a text.
C7_ClearedAfterSave ==
    pc = "done" =>
        \A a \in DOMAIN axes :
            /\ axes[a].lines = <<>>
            /\ axes[a].collections = <<>>
            /\ axes[a].containers = <<>>
            /\ axes[a].texts = <<>>

C7_Witness ==
    /\ pc = "done"
    /\ SavePath(writer, extension) = "writer"
    /\ Len(axes) = 2
    /\ Len(called) >= 2
    /\ period_summary_func

\* C8 (as claimed): in the GIF path the draw callback is invoked for frames
\* 0..N-1 in order, and the image sequence handed to the encoder holds
\* exactly one image per row of the interpolated table, image k being the
\* rendering of frame k.
C8_OneImagePerRow ==
    (pc = "done" /\ SavePath(writer, extension) = "gif") =>
        /\ called = get_frames(df)
        /\ encoded = get_frames(df)

Summaries(texts) == SelectSeq(texts, LAMBDA e : e.by = "summary")

\* a Frame step in which the function returned a mapping lacking a key
C9_Step ==
    (/\ pc = "rendering"
     /\ called' # called
     /\ text_dict' # <<>>
     /\ ~({"x", "y", "s"} \subseteq text_dict'[1].keys)) =>
        /\ pc' = "error"
        /\ err' = ErrSummaryKeys
        /\ Summaries(axes'[1].texts) = Summaries(axes[1].texts)

\* C9: a show_period call in which period_summary_func returns a mapping
\* lacking "x", "y" or "s" ends in the ValueError naming the callable, and
\* leaves the summary text elements as they were: none created, none
\* modified.
C9_InvalidSummaryRaises == [][C9_Step]_vars

C9_Witness ==
    /\ pc = "error"
    /\ err = ErrSummaryKeys
    /\ text_dict # <<>>
    /\ text_dict[1].keys = {"x", "s"}
    /\ Len(called) = 2
    /\ Summaries(Texts) = <<[id |-> 2, by |-> "summary", s |-> SummaryText(0)]>>

\* get_colors, which runs first, did not raise
ColorsResolved == err \notin {ErrColorName, ErrCmapType}

NumberPositions ==
    {c \in DOMAIN orig_df.cols : IsNumber(orig_df.cols[c].dtype)}

NthNumber(m) ==
    CHOOSE c \in NumberPositions :
        Cardinality({p \in NumberPositions : p <= c}) = m

Spelled(id) == IF id[1] = "int" THEN ToString(id[2]) ELSE id[2]

\* C10: get_data_cols returns the identifiers of the numeric columns, as
\* strings and in their order in the table; a table without a numeric
\* column ends in the no-numeric-data error and nothing is returned.
C10_NumericColumnsAsStrings ==
    (pc # "new" /\ ColorsResolved) =>
        IF NumberPositions = {}
        THEN pc = "error" /\ err = ErrNoNumeric /\ data_cols = <<>>
        ELSE /\ Len(data_cols) = Cardinality(NumberPositions)
             /\ \A m \in DOMAIN data_cols :
                   /\ data_cols[m][1] = "str"
                   /\ data_cols[m][2] = Spelled(orig_df.cols[NthNumber(m)].id)

C10_Witness ==
    /\ pc = "idle"
    /\ Len(orig_df.cols) = 3
    /\ ~IsNumber(orig_df.cols[2].dtype)
    /\ data_cols = <<<<"str", "a">>, <<"str", "c">>>>

\* C11 (as claimed): for every colour specification get_colors accepts and
\* every table, the resolved colour list has at least as many entries as the
\* table has data series.
C11_EnoughColors ==
    (pc # "new" /\ ColorsResolved) =>
        colors >= Cardinality(NumberPositions)

\* C12 (as claimed): constructing a chart with a caller-supplied fig that is
\* not a Figure instance, the other arguments being valid, ends in the
\* bad-figure-type TypeError.
C12_BadFigureTypeError ==
    (/\ pc = "error"
     /\ fig = "other"
     /\ ColorsResolved
     /\ err # ErrNoNumeric) =>
        err = ErrFigType

\* the chart before this one on the figure ended with save() returning
AfterNormalSave == history # <<>> /\ history[Len(history)].how = "done"

\* C13: for two animations run one after the other on the same figure, the
\* first one's save() having returned normally: the second starts with no
\* text element on the axes, its first show_period call creates its own
\* period and summary elements, no text element of the first animation (or
\* of the caller) is on the axes during the second, and the axes never
\* hold more than two text elements, in the first animation (from a
\* text-free surface) and in the second.
C13_NoLeakAfterSave ==
    /\ (history = <<>> /\ axes # <<>> /\ TextFreeStart) => Len(Texts) <= 2
    /\ AfterNormalSave =>
          /\ \A k \in DOMAIN Texts : OfThisChart(Texts[k])
          /\ Len(Texts) <= 2
          /\ called = <<>> => Texts = <<>>
          /\ (pc = "rendering" /\ called # <<>> /\ LabelEnabled) =>
                Texts[1].id = FirstId /\ Texts[1].by = "period"
          /\ (pc = "rendering" /\ called # <<>> /\ period_summary_func) =>
                \E k \in DOMAIN Texts :
                    Texts[k].id = FirstId + 1 /\ Texts[k].by = "summary"

C13_Witness ==
    /\ AfterNormalSave
    /\ pc = "rendering"
    /\ Len(called) = 2
    /\ LabelEnabled
    /\ period_summary_func
    /\ FirstId > 5
    /\ Len(Texts) = 2
    /\ Texts[1].id = FirstId
    /\ Texts[2].id = FirstId + 1
    /\ Texts[2].s = SummaryText(1)

\* a step of save() in which the encoding fails for want of an encoder
C14_Step ==
    (/\ pc = "rendering"
     /\ encoder = "missing"
     /\ pc' = "error"
     /\ called' = called) =>
        /\ err' = ErrNoEncoder
        /\ axes' = axes
        /\ Len(axes'[1].lines) >= Len(called')
        /\ progress_bar' = progress_bar
        /\ encoded' = encoded

\* C14: when the encoding step of save() fails with the missing-encoder
\* TypeError, save() ends in the RuntimeError with installation guidance
\* and clearing is not executed: every artist on the figure stays, those
\* of the frames already rendered included, the progress bar is not closed
\* and nothing is encoded.
C14_EncoderFailureLeavesSurface == [][C14_Step]_vars

C14_Witness ==
    /\ pc = "error"
    /\ err = ErrNoEncoder
    /\ encoder = "missing"
    /\ history = <<>>
    /\ Len(called) = 2
    /\ Len(axes[1].lines) = 2
    /\ Len(Texts) = 2
    /\ progress_bar = "open"

\* interval a lies within interval b
Contained(a, b) == RatLeq(b[1], a[1]) /\ RatLeq(a[2], b[2])

\* a frame of a chart without fixed_max is rendered, limits included
C15_Step ==
    (/\ pc = "rendering"
     /\ pc' = "rendering"
     /\ called' # called
     /\ ~fixed_max
     /\ ~HasObjectCol(df)) =>
        /\ called # <<>> =>
              /\ Contained(axes[1].xlim, axes'[1].xlim)
              /\ Contained(axes[1].ylim, axes'[1].ylim)
        /\ Contained(axes'[1].xlim, XLimits(df, i, TRUE))
        /\ Contained(axes'[1].ylim, YLimits(df, i, TRUE))
        /\ i' = NRows(df) =>
              /\ axes'[1].xlim = XLimits(df, i, TRUE)
              /\ axes'[1].ylim = YLimits(df, i, TRUE)

\* C15: with fixed_max = False the bounds applied over the frames 0..N-1
\* of one interpolated table only widen: the x and the y interval of a
\* frame lie within those of the next frame and within those fixed_max =
\* True would apply, and at frame N-1 they equal the fixed ones.
C15_BoundsOnlyWiden == [][C15_Step]_vars

C15_Witness ==
    /\ pc = "rendering"
    /\ ~fixed_max
    /\ NRows(df) >= 3
    /\ i = NRows(df)
    /\ axes[1].ylim = YLimits(df, 0, TRUE)
    /\ axes[1].ylim # YLimits(df, 0, FALSE)
    /\ axes[1].ylim # YLimits(df, 1, FALSE)
    /\ YLimits(df, 1, FALSE) # YLimits(df, 0, FALSE)
    /\ axes[1].xlim = XLimits(df, 0, TRUE)
    /\ axes[1].xlim # XLimits(df, 0, FALSE)
====
